---- MODULE Spec2Model ----
(***************************************************************************)
(* A model of bluebike.py: the routing client (RoutingService), the        *)
(* geocode client (GeocodeService), the compass sector test and the        *)
(* nearby-station resolver with its result cache (BlueBikesService).       *)
(*                                                                         *)
(* Units.  Latitudes and longitudes are integers in 1e-7 degree.  Miles    *)
(* are integers in 1e-9 mile, so that meters * 0.000621371 is the exact    *)
(* product meters * 621371.  Bearings are integers in 0.1 degree.          *)
(***************************************************************************)
EXTENDS Integers, Sequences, FiniteSets, TLC

VARIABLES
    compass,          \* SpecDir: the bearing under test and the sectors that accept it
    rcache,           \* SpecRoute: RoutingService.cache of one client
    rfirst,           \* SpecRoute: per argument pair, the first call's answer and return
    rcall,            \* SpecRoute: the last get_walking_distance call and its return
    gcache,           \* SpecGeo: GeocodeService.cache
    gcall,            \* SpecGeo: the last geocode_address call and its return
    gcalls,           \* SpecGeo: number of geocode_address calls made
    gfirst,           \* SpecGeo: what the first call for each address returned
    stations_df,      \* Spec: BlueBikesService.stations_df
    last_update,      \* Spec: BlueBikesService.last_update
    clock,            \* Spec: number of fetch_station_data calls so far (datetime.now)
    fetch,            \* SpecFetch: the last fetch_station_data call and its return
    cached_stations,  \* Spec: st.session_state.cached_stations
    call,             \* Spec: the last get_stations_near_location call and its return
    calls,            \* Spec: number of get_stations_near_location calls made
    inventory_changed, \* Spec: stations_df was replaced by other data since the last search
    resolved,         \* Spec: the (origin, station) pairs routed in earlier searches
    computed_order,   \* Spec: per result-cache key, the station order first returned for it
    sort_impl         \* Spec: how the data-frame sort orders rows with equal keys

dirVars   == <<compass>>
routeVars == <<rcache, rfirst, rcall>>
geoVars   == <<gcache, gcall, gcalls, gfirst>>
fetchVars == <<fetch>>
mainVars  == <<stations_df, last_update, clock, cached_stations, call, calls,
               inventory_changed, resolved, computed_order, sort_impl>>
vars      == <<compass, rcache, rfirst, rcall, gcache, gcall, gcalls, gfirst, stations_df,
               last_update, clock, fetch, cached_stations, call, calls,
               inventory_changed, resolved, computed_order, sort_impl>>

(***************************************************************************)
(* Points of the model                                                     *)
(***************************************************************************)
Pt(lat, lon) == [lat |-> lat, lon |-> lon]

O1  == Pt(423601000, -710589000)   \* BOSTON_LAT, BOSTON_LON
O1b == Pt(423601004, -710589000)   \* 0.00000004 degree north of O1
P1  == Pt(423630977, -710589000)   \* 0.207 mi north of O1
P2  == Pt(423658900, -710589000)   \* 0.400 mi north of O1
P3  == Pt(423601000, -710549800)   \* 0.200 mi east of O1
P4  == Pt(423514000, -710589000)   \* 0.601 mi south of O1

(***************************************************************************)
(* Geodesy.  The trigonometry of haversine_distance and get_bearing is     *)
(* evaluated ahead for the points of the model (R = 3959, results rounded  *)
(* to 1e-9 mile and to 0.1 degree) and looked up here.                     *)
(***************************************************************************)
HaversineTable ==
    { <<O1, O1b, 27639>>,
      <<O1, P1, 207133831>>, <<O1, P2, 400075018>>,
      <<O1, P3, 200147026>>, <<O1, P4, 601148990>>,
      <<O1b, P1, 207106192>>, <<O1b, P2, 400047379>>,
      <<O1b, P3, 200147027>>, <<O1b, P4, 601176629>>,
      <<P1, P2, 192941187>>, <<P1, P3, 288030111>>, <<P2, P3, 447342330>> }

haversine_distance(lat1, lon1, lat2, lon2) ==
    LET a == Pt(lat1, lon1)
        b == Pt(lat2, lon2)
    IN  IF a = b THEN 0
        ELSE (CHOOSE t \in HaversineTable :
                 \/ t[1] = a /\ t[2] = b
                 \/ t[1] = b /\ t[2] = a)[3]

get_straight_distance(lat1, lon1, lat2, lon2) ==
    haversine_distance(lat1, lon1, lat2, lon2)

BearingTable ==
    { <<O1, P1, 0>>, <<O1, P2, 0>>, <<O1, P3, 900>>, <<O1, P4, 1800>>,
      <<O1b, P1, 0>>, <<O1b, P2, 0>>, <<O1b, P3, 900>>, <<O1b, P4, 1800>> }

get_bearing(lat1, lon1, lat2, lon2) ==
    (CHOOSE t \in BearingTable :
        t[1] = Pt(lat1, lon1) /\ t[2] = Pt(lat2, lon2))[3]

(***************************************************************************)
(* is_in_direction: the eight sectors, bounds in 0.1 degree                *)
(***************************************************************************)
Sectors == {"north", "northeast", "east", "southeast",
            "south", "southwest", "west", "northwest"}

direction_ranges ==
    [north     |-> <<3375, 225>>,
     northeast |-> <<225, 675>>,
     east      |-> <<675, 1125>>,
     southeast |-> <<1125, 1575>>,
     south     |-> <<1575, 2025>>,
     southwest |-> <<2025, 2475>>,
     west      |-> <<2475, 2925>>,
     northwest |-> <<2925, 3375>>]

is_in_direction(bearing, direction) ==
    IF direction \notin DOMAIN direction_ranges THEN TRUE
    ELSE LET start == direction_ranges[direction][1]
             end   == direction_ranges[direction][2]
         IN  IF start > end
             THEN bearing >= start \/ bearing <= end
             ELSE start <= bearing /\ bearing <= end

(***************************************************************************)
(* RoutingService                                                          *)
(***************************************************************************)
MilesPerMeter == 621371     \* 0.000621371 mile per meter, in 1e-9 mile
SanityFactor  == 3          \* straight_distance * 3.0

\* Python's None, and a value that is not None.
None == <<>>
Some(v) == <<v>>

\* A dict after d[key] = value; {} is the function of empty domain.
Put(d, key, value) ==
    [k \in DOMAIN d \cup {key} |-> IF k = key THEN value ELSE d[k]]

\* f"{x:.6f}": the coordinate rounded to 6 decimals (half to even), as the
\* integer number of 1e-6 degree the formatted text spells.
Fmt6Abs(n) ==
    LET q == n \div 10
        r == n % 10
    IN  IF r > 5 \/ (r = 5 /\ q % 2 = 1) THEN q + 1 ELSE q

Fmt6(x) == IF x >= 0 THEN Fmt6Abs(x) ELSE 0 - Fmt6Abs(0 - x)

\* A route key that forgets the direction of travel.
UndirectedRouteKey(lat1, lon1, lat2, lon2) ==
    LET a == <<Fmt6(lat1), Fmt6(lon1)>>
        b == <<Fmt6(lat2), Fmt6(lon2)>>
    IN  IF a[1] < b[1] \/ (a[1] = b[1] /\ a[2] <= b[2])
        THEN <<a[1], a[2], b[1], b[2]>>
        ELSE <<b[1], b[2], a[1], a[2]>>

\* cache_key = f"{lat1:.6f},{lon1:.6f}->{lat2:.6f},{lon2:.6f}"
RouteKey(lat1, lon1, lat2, lon2) ==
    <<Fmt6(lat1), Fmt6(lon1), Fmt6(lat2), Fmt6(lon2)>>

\* What the router may answer to one request: a transport or HTTP failure
\* (the except branch), a body whose code is not Ok or whose route list is
\* empty (the else branch), or a route of some length in meters.
RouteMeters == {350, 600, 1000}

RouterOutcomes ==
    {[kind |-> "error", meters |-> 0], [kind |-> "no_route", meters |-> 0]}
        \cup {[kind |-> "ok", meters |-> m] : m \in RouteMeters}

\* A client that believes every routed distance.
AlwaysPlausible(distance_miles, straight_distance) == FALSE

\* The plausibility test of a routed distance against the straight line.
Implausible(distance_miles, straight_distance) ==
    distance_miles > straight_distance * SanityFactor

\* get_walking_distance on a client whose cache is `cache`, the router
\* answering `response` if it is asked: the cache after the call, the value
\* returned, and whether a request was sent.
get_walking_distance(cache, lat1, lon1, lat2, lon2, response) ==
    LET cache_key == RouteKey(lat1, lon1, lat2, lon2)
        distance_miles == response.meters * MilesPerMeter
        straight_distance == get_straight_distance(lat1, lon1, lat2, lon2)
        answer ==
            IF response.kind = "ok"
            THEN IF Implausible(distance_miles, straight_distance)
                 THEN None
                 ELSE Some(distance_miles)
            ELSE None
    IN  IF cache_key \in DOMAIN cache
        THEN [cache |-> cache, ret |-> cache[cache_key], sent |-> FALSE]
        ELSE [cache |-> Put(cache, cache_key, answer), ret |-> answer,
              sent |-> TRUE]

(***************************************************************************)
(* Text: the str methods geocode_address uses                              *)
(***************************************************************************)
UpperLetters == "ABCDEFGHIJKLMNOPQRSTUVWXYZ"
LowerLetters == "abcdefghijklmnopqrstuvwxyz"

CharAt(s, i) == SubSeq(s, i, i)

LowerChar(c) ==
    IF \E i \in 1..Len(UpperLetters) : CharAt(UpperLetters, i) = c
    THEN CharAt(LowerLetters,
                CHOOSE i \in 1..Len(UpperLetters) : CharAt(UpperLetters, i) = c)
    ELSE c

\* s.lower()
RECURSIVE Lower(_)
Lower(s) == IF s = "" THEN "" ELSE LowerChar(CharAt(s, 1)) \o Lower(Tail(s))

\* pat in s
Contains(s, pat) ==
    \E i \in 1..(Len(s) - Len(pat) + 1) : SubSeq(s, i, i + Len(pat) - 1) = pat

\* s.replace(old, new): occurrences replaced left to right, not overlapping
RECURSIVE Replace(_, _, _)
Replace(s, old, new) ==
    IF Len(s) < Len(old) THEN s
    ELSE IF SubSeq(s, 1, Len(old)) = old
         THEN new \o Replace(SubSeq(s, Len(old) + 1, Len(s)), old, new)
         ELSE CharAt(s, 1) \o Replace(Tail(s), old, new)

\* s.split(sep)
RECURSIVE Split(_, _)
Split(s, sep) ==
    IF ~Contains(s, sep) THEN <<s>>
    ELSE LET i == CHOOSE k \in 1..(Len(s) - Len(sep) + 1) :
                      /\ SubSeq(s, k, k + Len(sep) - 1) = sep
                      /\ \A j \in 1..(k - 1) : SubSeq(s, j, j + Len(sep) - 1) # sep
         IN  <<SubSeq(s, 1, i - 1)>>
                 \o Split(SubSeq(s, i + Len(sep), Len(s)), sep)

\* s.strip()
RECURSIVE Strip(_)
Strip(s) ==
    IF s = "" THEN s
    ELSE IF CharAt(s, 1) = " " THEN Strip(Tail(s))
    ELSE IF CharAt(s, Len(s)) = " " THEN Strip(SubSeq(s, 1, Len(s) - 1))
    ELSE s

(***************************************************************************)
(* GeocodeService                                                          *)
(***************************************************************************)
intersection_keywords == <<" and ", " & ", " @ ", " at ">>

is_intersection(address) ==
    \E k \in 1..Len(intersection_keywords) :
        Contains(Lower(address), intersection_keywords[k])

\* for keyword in intersection_keywords:
\*     normalized_address = normalized_address.replace(keyword, ' and ')
RECURSIVE ReplaceKeywords(_, _)
ReplaceKeywords(s, k) ==
    IF k > Len(intersection_keywords) THEN s
    ELSE ReplaceKeywords(Replace(s, intersection_keywords[k], " and "), k + 1)

normalized_address(address) == ReplaceKeywords(Lower(address), 1)

\* The test for a city or state already present in the text.
NamesCityOrState(text) == Contains(text, "boston") \/ Contains(text, "ma")

\* The candidate queries, in the order they are tried.
search_addresses(address) ==
    IF is_intersection(address)
    THEN LET norm == normalized_address(address)
             first ==
                 IF ~NamesCityOrState(norm)
                 THEN <<norm \o ", Boston, MA", address \o ", Boston, MA">>
                 ELSE <<norm, address>>
             streets == Split(norm, " and ")
             base_location ==
                 IF ~Contains(norm, "boston") THEN ", Boston, MA" ELSE ""
         IN  IF Contains(norm, " and ") /\ Len(streets) = 2
             THEN LET street1 == Strip(streets[1])
                      street2 == Strip(streets[2])
                  IN  first \o
                      << street1 \o " & " \o street2 \o base_location,
                         street1 \o " at " \o street2 \o base_location,
                         "intersection of " \o street1 \o " and " \o street2
                             \o base_location,
                         street1 \o "/" \o street2 \o base_location >>
             ELSE first
    ELSE IF ~NamesCityOrState(Lower(address))
         THEN <<address \o ", Boston, MA">>
         ELSE <<address>>

\* The location the provider returns for a query; its formatted address is
\* taken to be the query it matched.
Location(query) ==
    [latitude |-> O1.lat, longitude |-> O1.lon, address |-> query]

\* Where the loops stand after a request that returned no location:
\* `if location:` is false and the attempt loop goes on.
AfterNothing(i, attempt) ==
    IF attempt < 1 THEN <<i, attempt + 1>> ELSE <<i + 1, 0>>

\* Where the loops stand after GeocoderTimedOut: sleep and continue on the
\* first attempt, break to the next candidate on the second.
AfterTimeout(i, attempt) ==
    IF attempt < 1 THEN <<i, attempt + 1>> ELSE <<i + 1, 0>>

\* A provider error that is taken for a timeout.
AfterServiceErrorAsTimeout(queries, i, attempt) ==
    IF attempt < 1 THEN <<i, attempt + 1>> ELSE <<i + 1, 0>>

\* Where the loops stand after an error other than a timeout
\* (GeocoderServiceError): the outer `except Exception` leaves both loops.
AfterServiceError(queries, i, attempt) == <<Len(queries) + 1, 0>>

\* What is known of the requests of a call before its first: n counts the
\* requests, first is the first query sent, last the candidate of the last
\* request with count requests for it and outcome prev; most is the most
\* requests any candidate got, seconds the outcomes after which a candidate
\* was requested again, in_order says no request went back or skipped a
\* candidate, and after_error counts the requests made after an error other
\* than a timeout.
NoRequests ==
    [n |-> 0, first |-> None, last |-> 0, count |-> 0, prev |-> "none",
     most |-> 0, seconds |-> {}, in_order |-> TRUE, errored |-> FALSE,
     after_error |-> 0]

\* The same after one more request, for candidate i.
Requested(obs, queries, i) ==
    LET again == i = obs.last
        count == IF again THEN obs.count + 1 ELSE 1
    IN  [n |-> obs.n + 1,
         first |-> IF obs.n = 0 THEN Some(queries[i]) ELSE obs.first,
         last |-> i, count |-> count, prev |-> obs.prev,
         most |-> IF count > obs.most THEN count ELSE obs.most,
         seconds |-> IF again THEN obs.seconds \cup {obs.prev}
                              ELSE obs.seconds,
         in_order |-> obs.in_order /\ (i = obs.last \/ i = obs.last + 1),
         errored |-> obs.errored,
         after_error |-> IF obs.errored THEN obs.after_error + 1
                                        ELSE obs.after_error]

\* The ways the two loops over the candidates can end, the provider being
\* free to answer each request with a location, with nothing, with a
\* timeout (GeocoderTimedOut) or with another error (GeocoderServiceError):
\* "found" with the winning query, "exhausted", or "exception" (an error
\* other than a timeout left both loops).  nreq counts the requests made,
\* first is the first query sent.
RECURSIVE TryCandidates(_, _, _, _)
TryCandidates(queries, i, attempt, obs) ==
    IF i > Len(queries)
    THEN {[kind |-> IF obs.errored THEN "exception" ELSE "exhausted",
           query |-> "", nreq |-> obs.n, first |-> obs.first,
           most |-> obs.most, seconds |-> obs.seconds,
           in_order |-> obs.in_order, after_error |-> obs.after_error]}
    ELSE LET now     == Requested(obs, queries, i)
             nothing == AfterNothing(i, attempt)
             timeout == AfterTimeout(i, attempt)
             failure == AfterServiceError(queries, i, attempt)
         IN  {[kind |-> "found", query |-> queries[i], nreq |-> now.n,
               first |-> now.first, most |-> now.most,
               seconds |-> now.seconds, in_order |-> now.in_order,
               after_error |-> now.after_error]}
             \cup TryCandidates(queries, nothing[1], nothing[2],
                                [now EXCEPT !.prev = "nothing"])
             \cup TryCandidates(queries, timeout[1], timeout[2],
                                [now EXCEPT !.prev = "timeout"])
             \cup TryCandidates(queries, failure[1], failure[2],
                                [now EXCEPT !.prev = "service_error",
                                            !.errored = TRUE])

failure_result(address) ==
    [lat |-> None, lon |-> None, formatted_address |-> None,
     success |-> FALSE,
     error |-> Some("Could not find location for: " \o address)]

success_result(location) ==
    [lat |-> Some(location.latitude), lon |-> Some(location.longitude),
     formatted_address |-> Some(location.address),
     success |-> TRUE, error |-> None]

\* geocode_address that lets a provider error escape to the caller.
geocode_address_uncaught(cache, address, run) ==
    IF address \in DOMAIN cache
    THEN [cache |-> cache, ret |-> cache[address], raised |-> FALSE, nreq |-> 0]
    ELSE IF run.kind = "found"
         THEN LET result == success_result(Location(run.query))
              IN  [cache |-> Put(cache, address, result), ret |-> result,
                   raised |-> FALSE, nreq |-> run.nreq]
         ELSE IF run.kind = "exception"
              THEN [cache |-> cache, ret |-> None, raised |-> TRUE,
                    nreq |-> run.nreq]
              ELSE [cache |-> Put(cache, address, failure_result(address)),
                    ret |-> failure_result(address), raised |-> FALSE,
                    nreq |-> run.nreq]

\* geocode_address that stores only the successes.
geocode_address_forgets_failures(cache, address, run) ==
    IF address \in DOMAIN cache
    THEN [cache |-> cache, ret |-> cache[address], raised |-> FALSE, nreq |-> 0]
    ELSE IF run.kind = "found"
         THEN LET result == success_result(Location(run.query))
              IN  [cache |-> Put(cache, address, result), ret |-> result,
                   raised |-> FALSE, nreq |-> run.nreq]
         ELSE [cache |-> cache, ret |-> failure_result(address),
               raised |-> FALSE, nreq |-> run.nreq]

\* geocode_address on a client whose cache is `cache`, the loops over the
\* candidates ending as `run`: the cache after the call, the value returned,
\* whether an exception reached the caller, and the requests made.
geocode_address(cache, address, run) ==
    IF address \in DOMAIN cache
    THEN [cache |-> cache, ret |-> cache[address], raised |-> FALSE, nreq |-> 0]
    ELSE IF run.kind = "found"
         THEN LET result == success_result(Location(run.query))
              IN  [cache |-> Put(cache, address, result), ret |-> result,
                   raised |-> FALSE, nreq |-> run.nreq]
         ELSE \* loops exhausted, or `except Exception: pass`
              [cache |-> Put(cache, address, failure_result(address)),
               ret |-> failure_result(address), raised |-> FALSE,
               nreq |-> run.nreq]

(***************************************************************************)
(* Initial values                                                          *)
(***************************************************************************)
DirIdle ==
    compass = [bearing |-> 0, matching |-> {}, classified |-> FALSE]

NoRouteCall ==
    [n |-> 0, from |-> O1, to |-> O1, ret |-> None, sent |-> FALSE,
     response |-> None, first_args |-> FALSE, reverse_called |-> FALSE,
     first_rounded |-> FALSE, reverse_rounded |-> FALSE]

RouteIdle == rcache = <<>> /\ rfirst = <<>> /\ rcall = NoRouteCall

NoGeoCall ==
    [address |-> "", ret |-> None, raised |-> FALSE, nreq |-> 0,
     first_query |-> None, found |-> FALSE, repeat |-> FALSE,
     ended |-> "none", most |-> 0, seconds |-> {}, in_order |-> TRUE,
     after_error |-> 0]

GeoIdle == gcache = <<>> /\ gcall = NoGeoCall /\ gcalls = 0 /\ gfirst = <<>>

NoFetch ==
    [outcome |-> "none", requests |-> <<>>, ret |-> <<>>, kept |-> TRUE]

FetchIdle == fetch = NoFetch

(***************************************************************************)
(* SpecDir: is_in_direction applied to every bearing                       *)
(***************************************************************************)
Bearings == 0 .. 3599

\* The sectors is_in_direction accepts the bearing for.
Classify ==
    /\ ~compass.classified
    /\ compass' = [compass EXCEPT
           !.matching = {d \in Sectors : is_in_direction(compass.bearing, d)},
           !.classified = TRUE]
    /\ UNCHANGED <<routeVars, geoVars, mainVars, fetchVars>>

(***************************************************************************)
(* SpecRoute: one RoutingService client called with pairs of points        *)
(***************************************************************************)
MaxRouteCalls == 2

RoutePoints == {O1, O1b, P1, P2}

\* A point as the cache keys spell it.
Rounded(p) == Pt(Fmt6(p.lat), Fmt6(p.lon))

WalkingDistanceCall(a, b, response) ==
    /\ rcall.n < MaxRouteCalls
    /\ \E out \in {get_walking_distance(rcache, a.lat, a.lon, b.lat, b.lon,
                                        response)} :
          LET called  == DOMAIN rfirst
              rounded == {<<Rounded(p[1]), Rounded(p[2])>> : p \in called}
          IN  /\ rcache' = out.cache
              /\ rcall' = [n |-> rcall.n + 1, from |-> a, to |-> b,
                           ret |-> out.ret, sent |-> out.sent,
                           response |->
                               IF out.sent THEN Some(response) ELSE None,
                           first_args |-> <<a, b>> \notin called,
                           reverse_called |-> <<b, a>> \in called,
                           first_rounded |->
                               <<Rounded(a), Rounded(b)>> \notin rounded,
                           reverse_rounded |->
                               <<Rounded(b), Rounded(a)>> \in rounded]
              /\ rfirst' = IF <<a, b>> \in called THEN rfirst
                           ELSE Put(rfirst, <<a, b>>,
                                    [ret |-> out.ret,
                                     response |-> IF out.sent
                                                  THEN Some(response)
                                                  ELSE None])
    /\ UNCHANGED <<dirVars, geoVars, mainVars, fetchVars>>

(***************************************************************************)
(* SpecGeo: one GeocodeService client                                      *)
(***************************************************************************)
MaxGeoCalls == 2

Addresses == {"Mass Ave and Comm Ave", "Elm St & Oak St", "South Station"}

\* The ways the loops can end for each address.
CandidateRuns ==
    [address \in Addresses |->
        TryCandidates(search_addresses(address), 1, 0, NoRequests)]

GeocodeCall(address) ==
    /\ gcalls < MaxGeoCalls
    /\ \E run \in CandidateRuns[address] :
          \E out \in {geocode_address(gcache, address, run)} :
          LET sent == out.nreq > 0
          IN  /\ gcache' = out.cache
              /\ gcall' = [address |-> address, ret |-> out.ret,
                           raised |-> out.raised, nreq |-> out.nreq,
                           first_query |-> IF sent THEN run.first ELSE None,
                           found |-> sent /\ run.kind = "found",
                           repeat |-> address \in DOMAIN gfirst,
                           ended |-> IF sent THEN run.kind ELSE "cached",
                           most |-> IF sent THEN run.most ELSE 0,
                           seconds |-> IF sent THEN run.seconds ELSE {},
                           in_order |-> sent => run.in_order,
                           after_error |->
                               IF sent THEN run.after_error ELSE 0]
              /\ gfirst' = IF address \in DOMAIN gfirst THEN gfirst
                           ELSE Put(gfirst, address, out.ret)
    /\ gcalls' = gcalls + 1
    /\ UNCHANGED <<dirVars, routeVars, mainVars, fetchVars>>

(***************************************************************************)
(* BlueBikesService: the station inventory                                 *)
(***************************************************************************)
\* The stations of the feed, in feed order, and where they stand.
FeedOrder == <<"s1", "s2", "s3", "s4">>

StationPoint(id) ==
    CASE id = "s1" -> P1
      [] id = "s2" -> P2
      [] id = "s3" -> P3
      [] id = "s4" -> P4

\* The live fields of the status feed, in two snapshots of them.
StationStatus(id, version) ==
    IF version = 1
    THEN [num_bikes_available |-> 0, num_ebikes_available |-> 0,
          num_docks_available |-> 5, is_renting |-> 1, is_returning |-> 1]
    ELSE [num_bikes_available |-> 3, num_ebikes_available |-> 1,
          num_docks_available |-> 2, is_renting |-> 1, is_returning |-> 0]

\* One row of stations_df.join(status_df, on='station_id', how='left').
JoinedRow(id, version) ==
    LET status == StationStatus(id, version)
    IN  [station_id |-> id, lat |-> StationPoint(id).lat,
         lon |-> StationPoint(id).lon,
         num_bikes_available |-> status.num_bikes_available,
         num_ebikes_available |-> status.num_ebikes_available,
         num_docks_available |-> status.num_docks_available,
         is_renting |-> status.is_renting,
         is_returning |-> status.is_returning]

\* The joined frame of a feed that lists the stations `present`.
combined_df(present, version) ==
    LET ids == SelectSeq(FeedOrder, LAMBDA id : id \in present)
    IN  [i \in 1..Len(ids) |-> JoinedRow(ids[i], version)]

\* pl.DataFrame(): the empty frame.
EmptyFrame == <<>>

is_empty(df) == Len(df) = 0

(***************************************************************************)
(* BlueBikesService: the data-frame sort                                   *)
(***************************************************************************)
\* Insert a row after every row whose key is not greater: keeps the order
\* of rows with equal keys.
RECURSIVE InsertSorted(_, _)
InsertSorted(sorted, row) ==
    IF sorted = <<>> THEN <<row>>
    ELSE IF Head(sorted).distance_miles <= row.distance_miles
         THEN <<Head(sorted)>> \o InsertSorted(Tail(sorted), row)
         ELSE <<row>> \o sorted

RECURSIVE StableSort(_)
StableSort(rows) ==
    IF rows = <<>> THEN <<>>
    ELSE InsertSorted(StableSort(SubSeq(rows, 1, Len(rows) - 1)),
                      rows[Len(rows)])

\* Selection by swapping: the first smallest row of the rest changes place
\* with the row in front, which may carry that row past rows equal to it.
RECURSIVE SwapSort(_)
SwapSort(rows) ==
    IF Len(rows) <= 1 THEN rows
    ELSE LET m == CHOOSE i \in 1..Len(rows) :
                      /\ \A j \in 1..Len(rows) :
                             rows[i].distance_miles <= rows[j].distance_miles
                      /\ \A j \in 1..(i - 1) :
                             rows[j].distance_miles > rows[i].distance_miles
             swapped == [rows EXCEPT ![1] = rows[m], ![m] = rows[1]]
         IN  <<swapped[1]>> \o SwapSort(Tail(swapped))

\* The rows as the cache holds them, not sorted at all.
Unsorted(rows, impl) == rows

\* df.sort('distance_miles'): ascending by the key.  maintain_order is left
\* at its default, so the order of rows with equal keys is the sort
\* implementation's: `impl` says which of the two above it is.
sort(rows, impl) ==
    IF impl = "stable" THEN StableSort(rows) ELSE SwapSort(rows)

(***************************************************************************)
(* BlueBikesService.get_stations_near_location                             *)
(***************************************************************************)
\* direction=None is the empty text here: both are false in `direction or
\* 'all'` and in `if direction and direction != 'all'`.
NoDirection == ""

\* A result key that spells the coordinates in full.
ResultKeyUnrounded(lat, lon, radius_miles, direction) ==
    <<lat, lon, radius_miles,
      IF direction = NoDirection THEN "all" ELSE direction>>

\* cache_key = f"{lat:.6f}_{lon:.6f}_{radius_miles}_{direction or 'all'}"
ResultKey(lat, lon, radius_miles, direction) ==
    <<Fmt6(lat), Fmt6(lon), radius_miles,
      IF direction = NoDirection THEN "all" ELSE direction>>

\* station_lookup = {station_id: row}; a later row of the same id wins.
station_lookup(df) ==
    [id \in {df[i].station_id : i \in 1..Len(df)} |->
        df[CHOOSE i \in 1..Len(df) :
              /\ df[i].station_id = id
              /\ \A j \in (i + 1)..Len(df) : df[j].station_id # id]]

\* A refresh that measures the distances again.
updated_stations_rerouted(cached_data, df) ==
    LET lookup == station_lookup(df)
        kept   == SelectSeq(cached_data,
                            LAMBDA c : c.station_id \in DOMAIN lookup)
    IN  [i \in 1..Len(kept) |->
            [kept[i] EXCEPT !.distance_miles = kept[i].straight_distance]]

\* A refresh that keeps the live fields the entry was stored with.
updated_stations_stale(cached_data, df) ==
    LET lookup == station_lookup(df)
    IN  SelectSeq(cached_data, LAMBDA c : c.station_id \in DOMAIN lookup)

\* A refresh that keeps the stations the inventory no longer lists.
updated_stations_keeping_vanished(cached_data, df) == cached_data

\* The cached rows whose station is in the inventory, each with its live
\* fields taken from there.
updated_stations(cached_data, df) ==
    LET lookup == station_lookup(df)
        kept   == SelectSeq(cached_data,
                            LAMBDA c : c.station_id \in DOMAIN lookup)
        current(c) == lookup[c.station_id]
    IN  [i \in 1..Len(kept) |->
            [kept[i] EXCEPT
                !.num_bikes_available = current(kept[i]).num_bikes_available,
                !.num_ebikes_available = current(kept[i]).num_ebikes_available,
                !.num_docks_available = current(kept[i]).num_docks_available,
                !.is_renting = current(kept[i]).is_renting,
                !.is_returning = current(kept[i]).is_returning]]

\* A coarse phase that looks in every direction.
candidates_in_any_direction(df, lat, lon, radius_miles, direction) ==
    LET near(station) ==
            haversine_distance(lat, lon, station.lat, station.lon)
                <= radius_miles
        kept == SelectSeq(df, near)
    IN  [i \in 1..Len(kept) |->
            [station_id |-> kept[i].station_id,
             lat |-> kept[i].lat, lon |-> kept[i].lon,
             num_bikes_available |-> kept[i].num_bikes_available,
             num_ebikes_available |-> kept[i].num_ebikes_available,
             num_docks_available |-> kept[i].num_docks_available,
             is_renting |-> kept[i].is_renting,
             is_returning |-> kept[i].is_returning,
             straight_distance |->
                 haversine_distance(lat, lon, kept[i].lat, kept[i].lon)]]

\* The coarse phase: the rows within the radius in a straight line and, when
\* a direction is asked for, in its sector; each with its straight_distance.
straight_line_candidates(df, lat, lon, radius_miles, direction) ==
    LET near(station) ==
            /\ haversine_distance(lat, lon, station.lat, station.lon)
                   <= radius_miles
            /\ (direction # NoDirection /\ direction # "all")
                   => is_in_direction(
                          get_bearing(lat, lon, station.lat, station.lon),
                          direction)
        kept == SelectSeq(df, near)
    IN  [i \in 1..Len(kept) |->
            [station_id |-> kept[i].station_id,
             lat |-> kept[i].lat, lon |-> kept[i].lon,
             num_bikes_available |-> kept[i].num_bikes_available,
             num_ebikes_available |-> kept[i].num_ebikes_available,
             num_docks_available |-> kept[i].num_docks_available,
             is_renting |-> kept[i].is_renting,
             is_returning |-> kept[i].is_returning,
             straight_distance |->
                 haversine_distance(lat, lon, kept[i].lat, kept[i].lon)]]

\* station['distance_miles'] = walking_distance; station['area'] = ...
Walkable(station, walking_distance, location_name) ==
    [station_id |-> station.station_id,
     lat |-> station.lat, lon |-> station.lon,
     num_bikes_available |-> station.num_bikes_available,
     num_ebikes_available |-> station.num_ebikes_available,
     num_docks_available |-> station.num_docks_available,
     is_renting |-> station.is_renting,
     is_returning |-> station.is_returning,
     straight_distance |-> station.straight_distance,
     distance_miles |-> walking_distance,
     area |-> location_name]

\* A refinement phase that keeps every routed station.
AlwaysWalkable(walking_distance, radius_miles) == FALSE

\* The walking-radius test of the refinement phase.
TooFarToWalk(walking_distance, radius_miles) ==
    walking_distance > radius_miles

\* The refinement phase from candidate i on, on the search's own routing
\* client: the walkable rows, the requests sent, the stations the client
\* was called for (in call order), and the two drop counts.
RECURSIVE Refine(_, _, _, _, _, _, _, _)
Refine(candidates, i, routing_cache, responses, location_name, lat, lon, radius_miles) ==
    IF i > Len(candidates)
    THEN [walkable |-> <<>>, sent |-> {}, called |-> <<>>,
          routing_failures |-> 0, excluded_by_walking |-> 0]
    ELSE LET station == candidates[i]
             route == get_walking_distance(routing_cache, lat, lon,
                          station.lat, station.lon,
                          responses[station.station_id])
             rest  == Refine(candidates, i + 1, route.cache, responses,
                             location_name, lat, lon, radius_miles)
             asked == IF route.sent
                      THEN {<<Pt(lat, lon), Pt(station.lat, station.lon)>>}
                      ELSE {}
         IN  IF route.ret = None
             THEN [rest EXCEPT !.sent = asked \cup @,
                               !.called = <<station.station_id>> \o @,
                               !.routing_failures = @ + 1]
             ELSE IF TooFarToWalk(route.ret[1], radius_miles)
                  THEN [rest EXCEPT !.sent = asked \cup @,
                                    !.called = <<station.station_id>> \o @,
                                    !.excluded_by_walking = @ + 1]
                  ELSE [rest EXCEPT
                           !.sent = asked \cup @,
                           !.called = <<station.station_id>> \o @,
                           !.walkable =
                               <<Walkable(station, route.ret[1],
                                          location_name)>> \o @]

\* get_stations_near_location: the result cache after the call, the frame
\* returned, the path taken, and what the refinement phase did.
get_stations_near_location(df, cache, location_name, lat, lon, radius_miles, direction, force_refresh, responses, impl) ==
    LET cache_key == ResultKey(lat, lon, radius_miles, direction)
        hit == ~force_refresh /\ cache_key \in DOMAIN cache
        updated == updated_stations(cache[cache_key], df)
        \* del st.session_state.cached_stations[cache_key]
        kept == IF hit
                THEN [k \in DOMAIN cache \ {cache_key} |-> cache[k]]
                ELSE cache
        candidates == straight_line_candidates(df, lat, lon, radius_miles,
                                               direction)
        \* routing_service = RoutingService()
        refined == Refine(candidates, 1, <<>>, responses, location_name,
                          lat, lon, radius_miles)
        Returns(cache_after, frame, path, phase) ==
            [cache |-> cache_after, ret |-> frame, path |-> path,
             sent |-> phase.sent, called |-> phase.called,
             routing_failures |-> phase.routing_failures,
             excluded_by_walking |-> phase.excluded_by_walking]
        quiet == [sent |-> {}, called |-> <<>>, routing_failures |-> 0,
                  excluded_by_walking |-> 0]
    IN  IF df = None \/ is_empty(df)
        THEN Returns(cache, EmptyFrame, "no_inventory", quiet)
        ELSE IF hit /\ updated # <<>>
        THEN Returns(cache, sort(updated, impl), "cache_hit", quiet)
        ELSE IF candidates = <<>>
        THEN Returns(kept, EmptyFrame, "no_candidates", quiet)
        ELSE IF refined.walkable # <<>>
        THEN Returns(Put(kept, cache_key, refined.walkable),
                     sort(refined.walkable, impl), "computed", refined)
        ELSE Returns(kept, EmptyFrame, "computed", refined)

(***************************************************************************)
(* BlueBikesService.fetch_station_data                                     *)
(***************************************************************************)
\* How a fetch can fail: the discovery request fails; the discovery
\* document lacks one of the two entries; a sub-feed request fails.
FetchFailures == {"discovery_error", "missing_information", "missing_status",
                  "information_error", "status_error"}

\* The requests a fetch has made when it ends in `outcome`: the discovery
\* document, then station_information, then station_status.
FetchRequests(outcome) ==
    CASE outcome \in {"discovery_error", "missing_information",
                      "missing_status"} -> <<"gbfs">>
      [] outcome = "information_error" -> <<"gbfs", "station_information">>
      [] OTHER -> <<"gbfs", "station_information", "station_status">>

\* A fetch that drops the held inventory when it fails.
fetch_station_data_clearing(df, updated, now, outcome, present, version) ==
    IF outcome = "ok"
    THEN [stations_df |-> combined_df(present, version),
          last_update |-> Some(now),
          ret |-> combined_df(present, version),
          requests |-> FetchRequests(outcome)]
    ELSE [stations_df |-> None, last_update |-> None, ret |-> EmptyFrame,
          requests |-> FetchRequests(outcome)]

\* fetch_station_data at time `now`: the service's fields after the call,
\* the frame returned, and the requests made.
fetch_station_data(df, updated, now, outcome, present, version) ==
    IF outcome = "ok"
    THEN [stations_df |-> combined_df(present, version),
          last_update |-> Some(now),
          ret |-> combined_df(present, version),
          requests |-> FetchRequests(outcome)]
    ELSE [stations_df |-> df, last_update |-> updated, ret |-> EmptyFrame,
          requests |-> FetchRequests(outcome)]

(***************************************************************************)
(* Spec: the service, its result cache and the searches made on it         *)
(***************************************************************************)
MaxCalls   == 3
MaxFetches == 2

SortImpls == {"stable", "swap"}

\* The feeds a fetch may find: every station; s3 gone; s1 and s2 gone; s2
\* gone and the other status snapshot.
Feeds == { [present |-> {"s1", "s2", "s3", "s4"}, version |-> 1],
           [present |-> {"s1", "s2", "s4"}, version |-> 1],
           [present |-> {"s3", "s4"}, version |-> 1],
           [present |-> {"s1", "s3", "s4"}, version |-> 2] }

\* The searches made: around O1 within 0.5 mi, not forced and forced; the
\* same from O1b, which has O1's coordinates to 6 decimals; and north of O1
\* within 0.25 mi (0.5 and 0.25 are two of radius_options).
Queries ==
    { [origin |-> O1, radius_miles |-> 500000000, direction |-> NoDirection,
       force_refresh |-> FALSE],
      [origin |-> O1, radius_miles |-> 500000000, direction |-> NoDirection,
       force_refresh |-> TRUE],
      [origin |-> O1b, radius_miles |-> 500000000, direction |-> NoDirection,
       force_refresh |-> FALSE],
      [origin |-> O1, radius_miles |-> 250000000, direction |-> "north",
       force_refresh |-> FALSE] }

\* What the router answers during one search, per station asked about.
Route(m) == [kind |-> "ok", meters |-> m]
RouteError == [kind |-> "error", meters |-> 0]
NoRoute == [kind |-> "no_route", meters |-> 0]

RouterAnswers ==
    { [s1 |-> Route(600), s2 |-> Route(600), s3 |-> Route(350)],
      [s1 |-> Route(350), s2 |-> RouteError, s3 |-> NoRoute],
      [s1 |-> Route(1000), s2 |-> NoRoute, s3 |-> Route(600)],
      [s1 |-> RouteError, s2 |-> RouteError, s3 |-> RouteError] }

NoCall ==
    [lat |-> 0, lon |-> 0, radius_miles |-> 0, direction |-> NoDirection,
     force_refresh |-> FALSE, ret |-> EmptyFrame, path |-> "none",
     sent |-> {}, rerouted |-> {}, called |-> <<>>, entry |-> <<>>,
     written |-> {}, removed |-> {}]

MainIdle ==
    /\ stations_df = None
    /\ last_update = None
    /\ clock = 0
    /\ cached_stations = <<>>
    /\ call = NoCall
    /\ calls = 0
    /\ inventory_changed = FALSE
    /\ resolved = {}
    /\ computed_order = <<>>

StationIds(df) == [i \in 1..Len(df) |-> df[i].station_id]

Fetch(outcome, present, version) ==
    /\ clock < MaxFetches
    /\ \E out \in {fetch_station_data(stations_df, last_update, clock + 1,
                                      outcome, present, version)} :
           /\ stations_df' = out.stations_df
           /\ last_update' = out.last_update
           /\ inventory_changed' =
                  (inventory_changed \/ out.stations_df # stations_df)
    /\ clock' = clock + 1
    /\ UNCHANGED <<cached_stations, call, calls, resolved, computed_order,
                   sort_impl, dirVars, routeVars, geoVars, fetchVars>>

FetchOk == \E feed \in Feeds : Fetch("ok", feed.present, feed.version)

FetchFails == \E outcome \in FetchFailures : Fetch(outcome, {}, 1)

Search(origin, radius_miles, direction, force_refresh, responses) ==
    /\ calls < MaxCalls
    /\ \E out \in {get_stations_near_location(stations_df, cached_stations,
                       "Search Location", origin.lat, origin.lon,
                       radius_miles, direction, force_refresh, responses,
                       sort_impl)} :
          LET cache_key == ResultKey(origin.lat, origin.lon, radius_miles,
                                     direction)
              stored == out.path = "computed" /\ out.ret # EmptyFrame
          IN  /\ cached_stations' = out.cache
              /\ call' = [lat |-> origin.lat, lon |-> origin.lon,
                          radius_miles |-> radius_miles,
                          direction |-> direction,
                          force_refresh |-> force_refresh,
                          ret |-> out.ret, path |-> out.path,
                          sent |-> out.sent,
                          rerouted |-> out.sent \cap resolved,
                          called |-> out.called,
                          entry |-> IF cache_key \in DOMAIN cached_stations
                                    THEN StationIds(cached_stations[cache_key])
                                    ELSE <<>>,
                          written |->
                              {k \in DOMAIN out.cache :
                                  \/ k \notin DOMAIN cached_stations
                                  \/ out.cache[k] # cached_stations[k]},
                          removed |->
                              DOMAIN cached_stations \ DOMAIN out.cache]
              /\ resolved' = resolved \cup out.sent
              /\ computed_order' =
                     [k \in DOMAIN out.cache |->
                         IF k = cache_key /\ stored THEN StationIds(out.ret)
                         ELSE computed_order[k]]
    /\ calls' = calls + 1
    /\ inventory_changed' = FALSE
    /\ UNCHANGED <<stations_df, last_update, clock, sort_impl,
                   dirVars, routeVars, geoVars, fetchVars>>

SearchAny == \E q \in Queries, responses \in RouterAnswers :
                 Search(q.origin, q.radius_miles, q.direction,
                        q.force_refresh, responses)

Init ==
    /\ MainIdle
    /\ sort_impl \in SortImpls
    /\ DirIdle /\ RouteIdle /\ GeoIdle /\ FetchIdle

Next == FetchOk \/ FetchFails \/ SearchAny

Spec == Init /\ [][Next]_vars

(***************************************************************************)
(* The other specifications                                                *)
(***************************************************************************)
DirInit ==
    /\ compass \in [bearing : Bearings, matching : {{}}, classified : {FALSE}]
    /\ RouteIdle /\ GeoIdle /\ MainIdle /\ FetchIdle /\ sort_impl = "stable"

DirNext == Classify

SpecDir == DirInit /\ [][DirNext]_vars

RouteInit ==
    /\ RouteIdle
    /\ DirIdle /\ GeoIdle /\ MainIdle /\ FetchIdle /\ sort_impl = "stable"

RouteNext == \E a \in RoutePoints, b \in RoutePoints,
                response \in RouterOutcomes :
                 WalkingDistanceCall(a, b, response)

SpecRoute == RouteInit /\ [][RouteNext]_vars

GeoInit ==
    /\ GeoIdle
    /\ DirIdle /\ RouteIdle /\ MainIdle /\ FetchIdle /\ sort_impl = "stable"

GeoNext == \E address \in Addresses : GeocodeCall(address)

SpecGeo == GeoInit /\ [][GeoNext]_vars

\* SpecFetch: the service called to fetch, over and over, each call recorded
\* with the requests it made.
MaxFetchCalls == 4

FetchRecorded(outcome, present, version) ==
    /\ clock < MaxFetchCalls
    /\ \E out \in {fetch_station_data(stations_df, last_update, clock + 1,
                                      outcome, present, version)} :
           /\ stations_df' = out.stations_df
           /\ last_update' = out.last_update
           /\ inventory_changed' =
                  (inventory_changed \/ out.stations_df # stations_df)
           /\ fetch' = [outcome |-> outcome, requests |-> out.requests,
                        ret |-> out.ret,
                        kept |-> /\ out.stations_df = stations_df
                                 /\ out.last_update = last_update]
    /\ clock' = clock + 1
    /\ UNCHANGED <<cached_stations, call, calls, resolved, computed_order,
                   sort_impl, dirVars, routeVars, geoVars>>

FetchRecordedOk ==
    \E feed \in Feeds : FetchRecorded("ok", feed.present, feed.version)

FetchRecordedFails ==
    \E outcome \in FetchFailures : FetchRecorded(outcome, {}, 1)

FetchInit ==
    /\ MainIdle /\ FetchIdle
    /\ DirIdle /\ RouteIdle /\ GeoIdle /\ sort_impl = "stable"

FetchNext == FetchRecordedOk \/ FetchRecordedFails

SpecFetch == FetchInit /\ [][FetchNext]_vars

(***************************************************************************)
(* Properties of get_stations_near_location (Spec)                         *)
(***************************************************************************)
\* C1: every station of a result returned by get_stations_near_location,
\* freshly computed or served from the result cache, has a walking distance
\* (distance_miles) no greater than the radius asked for.
C1_WithinRadius ==
    \A i \in 1..Len(call.ret) :
        call.ret[i].distance_miles <= call.radius_miles

\* A result of two stations or more served from the result cache after the
\* inventory has been fetched again.
C1_CachedResultAfterRefetch ==
    /\ call.path = "cache_hit"
    /\ Len(call.ret) >= 2
    /\ clock >= 2

\* C3: of two consecutive non-forced searches with the same parameters and
\* no change of inventory in between, the second returns the frame the first
\* returned, and when it returns stations it is served from the result
\* cache.
C3_Idempotent ==
    [][(/\ calls > 0
        /\ calls' = calls + 1
        /\ ~inventory_changed
        /\ ~call.force_refresh /\ ~call'.force_refresh
        /\ call'.lat = call.lat /\ call'.lon = call.lon
        /\ call'.radius_miles = call.radius_miles
        /\ call'.direction = call.direction)
       => /\ call'.ret = call.ret
          /\ call'.ret # EmptyFrame => call'.path = "cache_hit"]_vars

Sorted(df) ==
    \A i \in 1..(Len(df) - 1) :
        df[i].distance_miles <= df[i + 1].distance_miles

Position(ids, id) == CHOOSE i \in 1..Len(ids) : ids[i] = id

\* The key of the last search.
CallKey == ResultKey(call.lat, call.lon, call.radius_miles, call.direction)

C8_RouteCachePersists == call.rerouted = {}

(***************************************************************************)
(* Properties of is_in_direction (SpecDir)                                 *)
(***************************************************************************)
\* The half-open range [start, end) of a sector.
InHalfOpenRange(bearing, direction) ==
    LET start == direction_ranges[direction][1]
        end   == direction_ranges[direction][2]
    IN  IF start > end THEN bearing >= start \/ bearing < end
                       ELSE start <= bearing /\ bearing < end

\* C2: every bearing in [0, 360) is accepted by exactly one of the eight
\* sectors, the one whose half-open range [center-22.5, center+22.5) holds
\* it.
C2_ExactlyOneSector ==
    compass.classified =>
        /\ Cardinality(compass.matching) = 1
        /\ compass.matching =
               {d \in Sectors : InHalfOpenRange(compass.bearing, d)}

(***************************************************************************)
(* Properties of RoutingService.get_walking_distance (SpecRoute)           *)
(***************************************************************************)
\* The two keys of the last call's points and the straight line between
\* them.
ForwardKey == RouteKey(rcall.from.lat, rcall.from.lon,
                       rcall.to.lat, rcall.to.lon)
ReverseKey == RouteKey(rcall.to.lat, rcall.to.lon,
                       rcall.from.lat, rcall.from.lon)
StraightLine == haversine_distance(rcall.from.lat, rcall.from.lon,
                                   rcall.to.lat, rcall.to.lon)

\* The call sent a request, gets its own entry, and the entry of the way
\* back stays under another key.
OwnRequestOwnEntry ==
    /\ rcall.sent
    /\ ForwardKey # ReverseKey
    /\ ForwardKey \in DOMAIN rcache
    /\ ReverseKey \in DOMAIN rcache
    /\ rcache[ForwardKey] = rcall.ret

\* C5 as stated: for any two distinct points A and B, the first call for
\* (B, A) after a call for (A, B) sends its own request and stores its own
\* entry under a key distinct from that of (A, B).
C5_DirectionalForDistinctPoints ==
    (/\ rcall.n > 0
     /\ rcall.from # rcall.to
     /\ rcall.first_args
     /\ rcall.reverse_called) => OwnRequestOwnEntry

\* C5, amended: for two points that differ once rounded to 6 decimals, the
\* first call for the rounded (B, A) after a call for the rounded (A, B)
\* sends its own request and stores its own entry under a key distinct from
\* that of (A, B).
C5_DirectionalForDistinctRoundings ==
    (/\ rcall.n > 0
     /\ Rounded(rcall.from) # Rounded(rcall.to)
     /\ rcall.first_rounded
     /\ rcall.reverse_rounded) => OwnRequestOwnEntry

\* The way back of an earlier call, asked for the first time.
C5_FirstCallOfTheWayBack ==
    /\ rcall.n > 0
    /\ Rounded(rcall.from) # Rounded(rcall.to)
    /\ rcall.first_rounded
    /\ rcall.reverse_rounded
    /\ rcall.sent

\* The router answered the last call with a route longer than 3 times the
\* straight line.
RoutedImplausibly ==
    /\ rcall.sent
    /\ rcall.response[1].kind = "ok"
    /\ rcall.response[1].meters * 621371 > 3 * StraightLine

\* C6 as stated: no call returns more than 3 times the straight line between
\* its two points; a route longer than that makes the call return None and
\* leaves None in the cache under the key; a repeated call after a None
\* returns None without a request.
C6_NeverBeyondThreeTimes ==
    rcall.n > 0 =>
        /\ rcall.ret # None => rcall.ret[1] <= 3 * StraightLine
        /\ RoutedImplausibly =>
               rcall.ret = None /\ rcache[ForwardKey] = None
        /\ (~rcall.first_args
              /\ rfirst[<<rcall.from, rcall.to>>].ret = None) =>
               ~rcall.sent /\ rcall.ret = None

\* C6, amended: no call that sends a request returns more than 3 times the
\* straight line between its two points; a route longer than that makes the
\* call return None and leaves None in the cache under the key; a repeated
\* call returns what the first call with its arguments returned, without a
\* request; a call that sends no request returns the cache entry of its key.
C6_NeverBeyondThreeTimesWhenRouted ==
    rcall.n > 0 =>
        /\ (rcall.sent /\ rcall.ret # None) =>
               rcall.ret[1] <= 3 * StraightLine
        /\ RoutedImplausibly =>
               rcall.ret = None /\ rcache[ForwardKey] = None
        /\ ~rcall.first_args =>
               /\ ~rcall.sent
               /\ rcall.ret = rfirst[<<rcall.from, rcall.to>>].ret
        /\ ~rcall.sent => rcall.ret = rcache[ForwardKey]

\* A repeated call whose first call was answered with a route longer than 3
\* times the straight line.
C6_RepeatedAfterImplausibleRoute ==
    /\ rcall.n > 0
    /\ ~rcall.first_args
    /\ rcall.ret = None
    /\ LET first == rfirst[<<rcall.from, rcall.to>>]
       IN  /\ first.response # None
           /\ first.response[1].kind = "ok"
           /\ first.response[1].meters * 621371 > 3 * StraightLine

(***************************************************************************)
(* Properties of GeocodeService.geocode_address (SpecGeo)                  *)
(***************************************************************************)
\* The address names neither the city nor the state.
NamesNoCityOrState(address) ==
    /\ ~Contains(Lower(address), "boston")
    /\ ~Contains(Lower(address), ", ma")

\* C7: for an intersection address that names no city or state, the first
\* query sent is the lower-cased address with its separators replaced by
\* " and ", followed by ", Boston, MA"; for "Mass Ave and Comm Ave" it is
\* "mass ave and comm ave, Boston, MA".
C7_FirstCandidate ==
    /\ (/\ gcall.nreq > 0
        /\ is_intersection(gcall.address)
        /\ NamesNoCityOrState(gcall.address)) =>
           gcall.first_query
               = Some(normalized_address(gcall.address) \o ", Boston, MA")
    /\ (gcall.nreq > 0 /\ gcall.address = "Mass Ave and Comm Ave") =>
           gcall.first_query = Some("mass ave and comm ave, Boston, MA")

\* C9: a call with an address that has been asked before returns what the
\* first call with it returned, a success or a failure, and sends no request
\* to the provider.
C9_CachedByAddress ==
    (gcalls > 0 /\ gcall.repeat) =>
        /\ gcall.nreq = 0
        /\ ~gcall.raised
        /\ gcall.ret = gfirst[gcall.address]

\* A repeated call for an address whose first call failed.
C9_RepeatedAfterFailure ==
    /\ gcalls > 0
    /\ gcall.repeat
    /\ ~gcall.raised
    /\ ~gcall.ret.success

\* C10: no exception reaches the caller; a call that runs the candidates
\* returns a success exactly when a request returned a location; every
\* failure has success false, no coordinates and the message "Could not
\* find location for: " followed by the address given.
C10_NeverRaises ==
    gcalls > 0 =>
        /\ ~gcall.raised
        /\ ~gcall.repeat => (gcall.ret.success <=> gcall.found)
        /\ ~gcall.ret.success =>
               gcall.ret =
                   [lat |-> None, lon |-> None, formatted_address |-> None,
                    success |-> FALSE,
                    error |-> Some("Could not find location for: "
                                       \o gcall.address)]

\* A call the provider ended with an error other than a timeout.
C10_ProviderError ==
    /\ gcalls > 0
    /\ gcall.ended = "exception"
    /\ ~gcall.raised
    /\ ~gcall.ret.success

(***************************************************************************)
(* Properties of the result cache (Spec)                                   *)
(***************************************************************************)
\* The station identifiers of a frame, as a set.
IdSet(df) == {df[i].station_id : i \in 1..Len(df)}

\* The stations of the entry the last search found under its key, and those
\* of them that the inventory still lists.
EntryIds == {call.entry[i] : i \in 1..Len(call.entry)}

Survivors == EntryIds \cap IdSet(stations_df)

\* The last search was not forced, found an entry with a surviving station,
\* and the inventory is still the one it saw.
RefreshCase ==
    /\ calls > 0
    /\ ~call.force_refresh
    /\ ~inventory_changed
    /\ Survivors # {}

\* C11: a search that is not forced and finds an entry with a surviving
\* station sends no routing request and calls the routing client for no
\* station, returns each station with the walking and straight-line distance
\* the entry holds for it, and leaves the result cache as it was.
C11_NoRecomputeOnHit ==
    RefreshCase =>
        /\ call.sent = {} /\ call.called = <<>>
        /\ call.written = {} /\ call.removed = {}
        /\ CallKey \in DOMAIN cached_stations
        /\ \A i \in 1..Len(call.ret) :
               \E j \in 1..Len(cached_stations[CallKey]) :
                   LET stored == cached_stations[CallKey][j]
                   IN  /\ stored.station_id = call.ret[i].station_id
                       /\ stored.distance_miles = call.ret[i].distance_miles
                       /\ stored.straight_distance
                              = call.ret[i].straight_distance

\* A search served from an entry while the inventory lists a station within
\* the radius that no search has asked a route for.
C11_HitWhileNewStationNearby ==
    /\ RefreshCase
    /\ call.path = "cache_hit"
    /\ \E i \in 1..Len(stations_df) :
           /\ haversine_distance(call.lat, call.lon, stations_df[i].lat,
                                 stations_df[i].lon) <= call.radius_miles
           /\ stations_df[i].station_id \notin EntryIds
           /\ \A pair \in resolved :
                  pair[2] # Pt(stations_df[i].lat, stations_df[i].lon)

\* C12: a search that is not forced and finds an entry with a surviving
\* station returns exactly the stations of the entry that the inventory
\* lists, each once, and each with the five live fields the inventory holds
\* for its identifier.
C12_LiveFieldsRefreshed ==
    RefreshCase =>
        /\ IdSet(call.ret) = Survivors
        /\ Len(call.ret) = Cardinality(Survivors)
        /\ \A i \in 1..Len(call.ret) :
               \E j \in 1..Len(stations_df) :
                   LET current == stations_df[j]
                       station == call.ret[i]
                   IN  /\ current.station_id = station.station_id
                       /\ current.num_bikes_available
                              = station.num_bikes_available
                       /\ current.num_ebikes_available
                              = station.num_ebikes_available
                       /\ current.num_docks_available
                              = station.num_docks_available
                       /\ current.is_renting = station.is_renting
                       /\ current.is_returning = station.is_returning

\* A search served from an entry that has lost a station and whose stored
\* counts differ from those of the inventory.
C12_HitWithChangedCounts ==
    /\ RefreshCase
    /\ call.path = "cache_hit"
    /\ Cardinality(Survivors) < Len(call.entry)
    /\ \E i \in 1..Len(call.ret) :
           \E j \in 1..Len(cached_stations[CallKey]) :
               /\ cached_stations[CallKey][j].station_id
                      = call.ret[i].station_id
               /\ cached_stations[CallKey][j].num_bikes_available
                      # call.ret[i].num_bikes_available
               /\ cached_stations[CallKey][j].is_returning
                      # call.ret[i].is_returning

\* The stations of the inventory within the radius of the last search in a
\* straight line and, when it names a direction, in that sector: their
\* identifiers in inventory order.
InSearchArea(station) ==
    /\ haversine_distance(call.lat, call.lon, station.lat, station.lon)
           <= call.radius_miles
    /\ call.direction \notin {NoDirection, "all"} =>
           is_in_direction(get_bearing(call.lat, call.lon, station.lat,
                                       station.lon),
                           call.direction)

CoarseSurvivors == StationIds(SelectSeq(stations_df, InSearchArea))

\* The rows of a frame, as a set.
RowSet(df) == {df[i] : i \in 1..Len(df)}

\* The last search was not forced and found an entry none of whose stations
\* the inventory lists; the inventory is still the one it saw.
ExpiredCase ==
    /\ calls > 0
    /\ ~call.force_refresh
    /\ ~inventory_changed
    /\ call.entry # <<>>
    /\ Survivors = {}

\* C13: a search that is not forced and finds an entry none of whose
\* stations the inventory lists removes the entry and goes on as a search
\* that found none: the routing client is called for the stations of the
\* inventory in the search area, the stations returned are among them, and
\* the key holds the rows returned if there are any and no entry otherwise.
C13_ExpiredEntryIsAMiss ==
    ExpiredCase =>
        /\ call.called = CoarseSurvivors
        /\ IdSet(call.ret) \subseteq IdSet(stations_df)
        /\ \A i \in 1..Len(call.ret) :
               \E j \in 1..Len(call.called) :
                   call.called[j] = call.ret[i].station_id
        /\ IF call.ret = EmptyFrame
           THEN /\ CallKey \notin DOMAIN cached_stations
                /\ call.removed = {CallKey}
                /\ call.written = {}
           ELSE /\ CallKey \in DOMAIN cached_stations
                /\ RowSet(cached_stations[CallKey]) = RowSet(call.ret)
                /\ call.written = {CallKey}

\* An entry none of whose stations is left, replaced by the stations routed
\* now.
C13_ExpiredThenRecomputed ==
    /\ ExpiredCase
    /\ call.ret # EmptyFrame
    /\ call.sent # {}

\* The last search computed its result: it was forced, or found no entry
\* with a surviving station, on an inventory that lists stations and is
\* still the one it saw.
ComputeCase ==
    /\ calls > 0
    /\ ~inventory_changed
    /\ stations_df # None
    /\ call.force_refresh \/ Survivors = {}

\* The key the claim names: the origin rounded to 6 decimals, the radius,
\* and the direction or "all".
RoundedKey ==
    <<Fmt6(call.lat), Fmt6(call.lon), call.radius_miles,
      IF call.direction = NoDirection THEN "all" ELSE call.direction>>

\* C14: a search that computes its result writes nothing into the result
\* cache when the result is empty, with or without candidates; when it is
\* not, it writes under the rounded key, and nowhere else, exactly the rows
\* it returns.
C14_StoredOnlyWhenNonEmpty ==
    ComputeCase =>
        IF call.ret = EmptyFrame
        THEN call.written = {}
        ELSE /\ call.written \subseteq {RoundedKey}
             /\ RoundedKey \in DOMAIN cached_stations
             /\ RowSet(cached_stations[RoundedKey]) = RowSet(call.ret)
             /\ Len(cached_stations[RoundedKey]) = Len(call.ret)

\* A forced search that returns stations other than those of the entry it
\* replaces.
C14_ForcedOverwrite ==
    /\ ComputeCase
    /\ call.force_refresh
    /\ call.ret # EmptyFrame
    /\ call.entry # <<>>
    /\ EntryIds # IdSet(call.ret)
    /\ call.written = {RoundedKey}

\* C15: a search that computes its result calls the routing client once
\* for each station of the inventory within the radius in a straight line
\* and, when a direction is set, in its sector, and for no other station;
\* it sends requests only for those stations; with no such station it sends
\* none.
C15_RoutingOnlyForCoarseSurvivors ==
    ComputeCase =>
        /\ call.called = CoarseSurvivors
        /\ Len(call.called)
               = Cardinality({call.called[i] : i \in 1..Len(call.called)})
        /\ \A pair \in call.sent :
               /\ pair[1] = Pt(call.lat, call.lon)
               /\ \E i \in 1..Len(stations_df) :
                      /\ InSearchArea(stations_df[i])
                      /\ pair[2] = Pt(stations_df[i].lat, stations_df[i].lon)
        /\ CoarseSurvivors = <<>> => call.sent = {}

\* A search in one direction that routed a station while the inventory held
\* a station within the radius in another direction and a station beyond
\* the radius in the direction asked for.
C15_FilteredByRadiusAndDirection ==
    /\ ComputeCase
    /\ call.direction = "north"
    /\ call.sent # {}
    /\ \E i \in 1..Len(stations_df), j \in 1..Len(stations_df) :
           LET a == stations_df[i]
               b == stations_df[j]
           IN  /\ haversine_distance(call.lat, call.lon, a.lat, a.lon)
                      <= call.radius_miles
               /\ ~is_in_direction(get_bearing(call.lat, call.lon, a.lat,
                                               a.lon), "north")
               /\ haversine_distance(call.lat, call.lon, b.lat, b.lon)
                      > call.radius_miles
               /\ is_in_direction(get_bearing(call.lat, call.lon, b.lat,
                                              b.lon), "north")

\* C19: what the result cache serves to a search that is not forced and
\* directly follows a forced search with the same parameters, the inventory
\* unchanged, is the set of stations the forced search returned.
C19_NeverServesSuperseded ==
    [][(/\ calls > 0
        /\ calls' = calls + 1
        /\ ~inventory_changed
        /\ call.force_refresh /\ ~call'.force_refresh
        /\ call'.lat = call.lat /\ call'.lon = call.lon
        /\ call'.radius_miles = call.radius_miles
        /\ call'.direction = call.direction
        /\ call'.path = "cache_hit")
       => IdSet(call'.ret) = IdSet(call.ret)]_vars

(***************************************************************************)
(* Properties of fetch_station_data (SpecFetch)                            *)
(***************************************************************************)
\* C18: a fetch that meets a failing request, or a discovery document
\* without the station_information or the station_status entry, returns the
\* empty frame and leaves stations_df and last_update as they were; with an
\* entry missing it has requested the discovery document only; stations_df
\* and last_update change only in a fetch that got all three documents, to
\* the joined frame it returns.
C18_FailedFetchKeepsInventory ==
    /\ fetch.outcome \in {"discovery_error", "information_error",
                          "status_error", "missing_information",
                          "missing_status"} =>
           fetch.ret = <<>> /\ fetch.kept
    /\ fetch.outcome \in {"missing_information", "missing_status"} =>
           fetch.requests = <<"gbfs">>
    /\ (fetch.outcome # "none" /\ ~fetch.kept) =>
           /\ fetch.outcome = "ok"
           /\ fetch.requests
                  = <<"gbfs", "station_information", "station_status">>
           /\ stations_df = fetch.ret
           /\ last_update = Some(clock)

\* A fetch that found the discovery document without an entry while the
\* service held an inventory from an earlier fetch.
C18_MissingEntryAfterGoodFetch ==
    /\ fetch.outcome = "missing_status"
    /\ stations_df # None
    /\ last_update # None /\ last_update # Some(clock)
    /\ fetch.ret = <<>>

(***************************************************************************)
(* Properties of the geocoding requests (SpecGeo)                          *)
(***************************************************************************)
\* The number of candidate queries of the last call's address.
CandidateCount == Len(search_addresses(gcall.address))

\* C16: a call that runs the candidates requests them in list order, none
\* more than twice, and a candidate a second time only after its first
\* request timed out; it makes no more than 2 requests per candidate in all.
C16_SecondRequestOnlyAfterTimeout ==
    gcall.nreq > 0 =>
        /\ gcall.in_order
        /\ gcall.most <= 2
        /\ gcall.seconds \subseteq {"timeout"}
        /\ gcall.nreq <= 2 * CandidateCount

\* C17: a call that met a provider error other than a timeout made no
\* request after it, raised nothing and returned the failure result.
C17_ServiceErrorAborts ==
    (gcalls > 0 /\ gcall.ended = "exception") =>
        /\ gcall.after_error = 0
        /\ ~gcall.raised
        /\ ~gcall.found
        /\ gcall.ret =
               [lat |-> None, lon |-> None, formatted_address |-> None,
                success |-> FALSE,
                error |-> Some("Could not find location for: "
                                   \o gcall.address)]

\* A provider error on a later request, with candidates not yet tried.
C17_ErrorWithCandidatesLeft ==
    /\ gcalls > 0
    /\ gcall.ended = "exception"
    /\ gcall.nreq > 1
    /\ gcall.nreq < CandidateCount

====
